---- MODULE Spec2Model ----
(***************************************************************************)
(* Playbook matching and action dispatch of Orion Sentinel (SOAR).         *)
(*                                                                         *)
(* The repository holds two parallel soar packages:                        *)
(*   "src"    : src/src/orion_ai/soar         (PlaybookEngine,             *)
(*              ActionExecutor, SoarService, pydantic models)              *)
(*   "stacks" : src/stacks/ai/src/orion_ai/soar (PlaybookEngine,           *)
(*              ActionHandler, SOARService, dataclass models)              *)
(* The variable impl says which package the modelled instance comes from;  *)
(* a definition that exists in both carries the suffix _src or _stacks.    *)
(***************************************************************************)
EXTENDS Integers, Sequences, FiniteSets, TLC

VARIABLES
    impl,                 \* "src" or "stacks": the package of this instance
    playbooks,            \* PlaybookEngine.playbooks
    load_order,           \* history: the playbooks in the order loaded/added
    last_op,              \* history: the last store operation and its outcome
    event,                \* the event last handed to evaluate_event
    triggered_actions,    \* what evaluate_event returned for it, or Raised
    global_dry_run,       \* ActionHandler.global_dry_run / ActionExecutor.dry_run
    processed_event_ids,  \* SOARService.processed_event_ids: the ids followed one by one
    other_processed,      \* the number of further ids in processed_event_ids
    cycle,                \* history: the last run_once / process_events call
    log,                  \* history: the actions that call dispatched, in order
    sink_up,              \* does the events stream (Loki) take a push
    running,              \* SoarService.running (src)
    loop,                 \* where the service process is: main, the loop, a cycle
    previous_baseline,    \* ChangeAnalyzer.compare_baselines: the argument previous
    current_baseline,     \* the argument current
    changes               \* what compare_baselines returned for them

engine_vars == <<impl, playbooks, load_order, last_op, event, triggered_actions>>
service_vars == <<global_dry_run, processed_event_ids, other_processed, cycle, log>>
process_vars == <<sink_up, running, loop>>
analyzer_vars == <<previous_baseline, current_baseline, changes>>
vars == <<engine_vars, service_vars, process_vars, analyzer_vars>>

(***************************************************************************)
(* Bounds of the model.                                                    *)
(***************************************************************************)
MaxPlaybooks == 3        \* playbooks held by the store in the store runs
MaxFileEntries == 2      \* entries of one playbooks file
MaxEvalPlaybooks == 2    \* playbooks of the store in the evaluation runs
MaxDispatchPlaybooks == 2 \* playbooks of the store in the dispatch runs
MaxBatch == 2            \* events of one fetch that are followed one by one
FreshBatch == 990        \* further events of one fetch, each of a new id
MaxWindow == 12000       \* processed ids up to which cycles are followed
MaxFetchBatch == 1       \* followed events of one fetch in the fetch runs
MaxCyclePlaybooks == 2   \* playbooks of the store in the cycle runs
MaxCycleBatch == 2       \* events of one fetch in the cycle runs
MaxDeviceIps == 2        \* entries of the device_ips of a baseline
MaxGeneration == 3       \* soar_action events of soar_action events followed
MaxLoopBatch == 2        \* events of one fetch in the process runs

(***************************************************************************)
(* Constants of the program.                                               *)
(***************************************************************************)
WindowLimit == 10000     \* processed ids above which run_once trims
WindowKeep == 5000       \* processed ids the trim keeps
QueryLimit == 1000       \* limit of the events query

(***************************************************************************)
(* Python values.  A str is the sequence of its code points, a dict a      *)
(* function from keys to values.                                           *)
(***************************************************************************)
None == [t |-> "none"]
Num(n) == [t |-> "num", n |-> n]
Str(s) == [t |-> "str", s |-> s]
Lst(l) == [t |-> "list", l |-> l]
Dict(d) == [t |-> "dict", d |-> d]

EmptyDict == Dict([k \in {} |-> None])

\* the decimal digits of a natural number, as code points ("0" is 48)
RECURSIVE Digits(_)
Digits(n) == IF n < 10 THEN <<48 + n>> ELSE Digits(n \div 10) \o <<48 + (n % 10)>>

\* str(v) for the numbers and strings an event field holds
PyStr(v) ==
    CASE v.t = "str" -> v.s
      [] v.t = "num" -> IF v.n < 0 THEN <<45>> \o Digits(0 - v.n) ELSE Digits(v.n)

\* sub in s, for two str
IsSubstring(sub, s) ==
    \E i \in 0..(Len(s) - Len(sub)) :
        \A j \in 1..Len(sub) : s[i + j] = sub[j]

\* lexicographic order of two code point sequences
RECURSIVE SeqLess(_, _)
SeqLess(a, b) ==
    IF b = <<>> THEN FALSE
    ELSE IF a = <<>> THEN TRUE
    ELSE IF Head(a) # Head(b) THEN Head(a) < Head(b)
    ELSE SeqLess(Tail(a), Tail(b))

\* a < b in Python 3: "T", "F", or "E" when it raises TypeError
PyLess(a, b) ==
    CASE a.t = "num" /\ b.t = "num" -> IF a.n < b.n THEN "T" ELSE "F"
      [] a.t = "str" /\ b.t = "str" -> IF SeqLess(a.s, b.s) THEN "T" ELSE "F"
      [] OTHER -> "E"

PyNot(r) == CASE r = "T" -> "F" [] r = "F" -> "T" [] OTHER -> r

\* a <= b is (a < b or a == b) for numbers and strings
PyLessEq(a, b) ==
    IF PyLess(a, b) = "E" THEN "E" ELSE IF a = b \/ PyLess(a, b) = "T" THEN "T" ELSE "F"

\* a in b: membership in a list, substring of a str, TypeError otherwise
PyIn(a, b) ==
    CASE b.t = "list" -> IF \E i \in 1..Len(b.l) : b.l[i] = a THEN "T" ELSE "F"
      [] b.t = "str" /\ a.t = "str" -> IF IsSubstring(a.s, b.s) THEN "T" ELSE "F"
      [] OTHER -> "E"

(***************************************************************************)
(* Conditions.  field is the dot path already split at ".".                *)
(***************************************************************************)
Operators_src == {"==", "!=", ">", ">=", "<", "<=", "contains", "in"}
Operators_stacks == Operators_src \cup {"not_contains", "not_in"}

\* Condition._compare (src) and the operator chain of Condition.evaluate
\* (stacks): the same comparisons, "E" when Python raises
Compare(field_value, operator, target_value) ==
    CASE operator = "==" -> IF field_value = target_value THEN "T" ELSE "F"
      [] operator = "!=" -> IF field_value # target_value THEN "T" ELSE "F"
      [] operator = ">" -> PyLess(target_value, field_value)
      [] operator = ">=" -> PyLessEq(target_value, field_value)
      [] operator = "<" -> PyLess(field_value, target_value)
      [] operator = "<=" -> PyLessEq(field_value, target_value)
      [] operator = "contains" ->
            IF target_value.t = "str"
            THEN (IF IsSubstring(target_value.s, PyStr(field_value)) THEN "T" ELSE "F")
            ELSE "E"
      [] operator = "not_contains" ->
            IF target_value.t = "str"
            THEN (IF IsSubstring(target_value.s, PyStr(field_value)) THEN "F" ELSE "T")
            ELSE "E"
      [] operator = "in" -> PyIn(field_value, target_value)
      [] operator = "not_in" -> PyNot(PyIn(field_value, target_value))
      [] OTHER -> "F"

\* Condition._get_field_value (src) / Condition._get_nested_value (stacks):
\* walk the path through nested dicts, None when a segment is absent
RECURSIVE GetNested(_, _)
GetNested(current, parts) ==
    IF parts = <<>> THEN current
    ELSE IF current.t = "dict" /\ Head(parts) \in DOMAIN current.d
         THEN GetNested(current.d[Head(parts)], Tail(parts))
         ELSE None

\* EventRef.dict() (src): the payload is under "fields"
EventDict_src(e) ==
    Dict([k \in {"fields", "labels"} |->
            IF k = "fields" THEN Dict(e.fields) ELSE EmptyDict])

\* Event.to_dict() (stacks): the payload is under "metadata"
EventDict_stacks(e) == Dict([k \in {"metadata"} |-> Dict(e.fields)])

\* Condition.evaluate (src) with a missing field taken as False whatever
\* negate is
Condition_evaluate_src_MissingIsFalse(c, e) ==
    LET field_value == GetNested(EventDict_src(e), c.field)
    IN  IF field_value = None THEN "F"
        ELSE LET result == Compare(field_value, c.operator, c.value)
             IN  IF c.negate THEN PyNot(result) ELSE result

\* Condition.evaluate (src): "T", "F" or "E" (raises)
Condition_evaluate_src(c, e) ==
    LET field_value == GetNested(EventDict_src(e), c.field)
    IN  IF field_value = None
        THEN (IF c.negate THEN "T" ELSE "F")
        ELSE LET result == Compare(field_value, c.operator, c.value)
             IN  IF c.negate THEN PyNot(result) ELSE result

\* Condition.evaluate (stacks): no negate; "T", "F" or "E" (raises)
Condition_evaluate_stacks(c, e) ==
    LET field_value == GetNested(EventDict_stacks(e), c.field)
    IN  IF field_value = None THEN "F"
        ELSE IF c.operator \in Operators_stacks
             THEN Compare(field_value, c.operator, c.value)
             ELSE "F"

(***************************************************************************)
(* Playbooks, actions and events.                                          *)
(***************************************************************************)
EventTypes_src == {"intel_match", "honeypot_hit"}       \* members of EventType
Wildcard == "*"

\* a TriggeredAction as evaluate_event creates it: executed False, success
\* None (here "unknown"), no error.  by is history: the position, in the
\* store, of the playbook that produced it.
TriggeredAction(pb, i, action, e) ==
    [playbook_id |-> pb.id, by |-> i, action |-> action, event_id |-> e.event_id,
     executed |-> FALSE, success |-> "unknown", error |-> FALSE]

\* what a call of evaluate_event ends with: it raised, or it returned a list
Raised == [raised |-> TRUE, list |-> <<>>]
Returned(list) == [raised |-> FALSE, list |-> list]

\* PlaybookEngine._resolve_action_parameters (src): returns the action as it is
_resolve_action_parameters(action, e) == action

\* PlaybookEngine._evaluate_conditions (src): every condition in turn; a False
\* or a raising condition ends it with False
RECURSIVE _evaluate_conditions_from(_, _, _)
_evaluate_conditions_from(conditions, k, e) ==
    IF k > Len(conditions) THEN TRUE
    ELSE IF Condition_evaluate_src(conditions[k], e) # "T" THEN FALSE
    ELSE _evaluate_conditions_from(conditions, k + 1, e)

_evaluate_conditions(pb, e) ==
    IF pb.conditions = <<>> THEN TRUE
    ELSE _evaluate_conditions_from(pb.conditions, 1, e)

\* Playbook.matches (stacks), the loop over the conditions: "T" when all hold,
\* "F" at the first False, "E" when a condition raises before any is False
RECURSIVE matches_conditions_from(_, _, _)
matches_conditions_from(conditions, k, e) ==
    IF k > Len(conditions) THEN "T"
    ELSE LET r == Condition_evaluate_stacks(conditions[k], e)
         IN  IF r = "T" THEN matches_conditions_from(conditions, k + 1, e) ELSE r

\* matches (stacks) without the comparison of the event type
matches_AnyType(pb, e) ==
    IF ~pb.enabled THEN "F" ELSE matches_conditions_from(pb.conditions, 1, e)

\* Playbook.matches (stacks): "T", "F" or "E" (raises)
matches(pb, e) ==
    IF ~pb.enabled THEN "F"
    ELSE IF pb.match_event_type # Wildcard /\ e.event_type # pb.match_event_type THEN "F"
    ELSE matches_conditions_from(pb.conditions, 1, e)

\* the TriggeredActions of one matching playbook, one per action, in order
ActionsOf_src(pb, i, e) ==
    [k \in 1..Len(pb.actions) |->
        TriggeredAction(pb, i, _resolve_action_parameters(pb.actions[k], e), e)]

ActionsOf_stacks(pb, i, e) ==
    [k \in 1..Len(pb.actions) |-> TriggeredAction(pb, i, pb.actions[k], e)]

\* Selected_src without the check of enabled
Selected_src_IgnoringEnabled(pb, e) ==
    /\ pb.match_event_type = e.event_type
    /\ _evaluate_conditions(pb, e)

\* does the src engine take playbook pb for event e (the three "continue"s)
Selected_src(pb, e) ==
    /\ pb.enabled
    /\ pb.match_event_type = e.event_type
    /\ _evaluate_conditions(pb, e)

\* the loop of evaluate_event (src) with a return after the first match
RECURSIVE evaluate_event_src_FirstMatchWins(_, _, _)
evaluate_event_src_FirstMatchWins(pbs, i, e) ==
    IF i > Len(pbs) THEN <<>>
    ELSE IF Selected_src(pbs[i], e) THEN ActionsOf_src(pbs[i], i, e)
    ELSE evaluate_event_src_FirstMatchWins(pbs, i + 1, e)

\* PlaybookEngine.evaluate_event (src): the loop from playbook i on
RECURSIVE evaluate_event_src_from(_, _, _)
evaluate_event_src_from(pbs, i, e) ==
    IF i > Len(pbs) THEN <<>>
    ELSE (IF Selected_src(pbs[i], e) THEN ActionsOf_src(pbs[i], i, e) ELSE <<>>)
         \o evaluate_event_src_from(pbs, i + 1, e)

evaluate_event_src(pbs, e) == Returned(evaluate_event_src_from(pbs, 1, e))

\* PlaybookEngine.evaluate_event (stacks): the loop from playbook i on, acc
\* the actions triggered so far; Raised when matches raises
RECURSIVE evaluate_event_stacks_from(_, _, _, _)
evaluate_event_stacks_from(pbs, i, e, acc) ==
    IF i > Len(pbs) THEN Returned(acc)
    ELSE LET m == matches(pbs[i], e)
         IN  IF m = "E" THEN Raised
             ELSE evaluate_event_stacks_from(pbs, i + 1, e,
                      IF m = "T" THEN acc \o ActionsOf_stacks(pbs[i], i, e) ELSE acc)

evaluate_event_stacks(pbs, e) == evaluate_event_stacks_from(pbs, 1, e, <<>>)

evaluate_event(pbs, e) ==
    IF impl = "src" THEN evaluate_event_src(pbs, e) ELSE evaluate_event_stacks(pbs, e)

(***************************************************************************)
(* The playbook store.                                                     *)
(***************************************************************************)
\* the insertion of a sort that is not stable: ahead of its equals
RECURSIVE InsertAheadOfEquals(_, _)
InsertAheadOfEquals(sorted, p) ==
    IF sorted = <<>> THEN <<p>>
    ELSE IF Head(sorted).priority > p.priority
         THEN <<Head(sorted)>> \o InsertAheadOfEquals(Tail(sorted), p)
         ELSE <<p>> \o sorted

\* list.sort(key=lambda p: p.priority, reverse=True): a stable sort, so an
\* element goes behind every element of a priority at least its own
RECURSIVE InsertByPriority(_, _)
InsertByPriority(sorted, p) ==
    IF sorted = <<>> THEN <<p>>
    ELSE IF Head(sorted).priority >= p.priority
         THEN <<Head(sorted)>> \o InsertByPriority(Tail(sorted), p)
         ELSE <<p>> \o sorted

RECURSIVE SortedFrom(_, _)
SortedFrom(list, sorted) ==
    IF list = <<>> THEN sorted
    ELSE SortedFrom(Tail(list), InsertByPriority(sorted, Head(list)))

\* PlaybookEngine._sort_playbooks (src), self.playbooks.sort(...) (stacks)
_sort_playbooks(list) == SortedFrom(list, <<>>)

\* a playbooks file: missing, unparsable, without a "playbooks" key, or a
\* list of entries, each a playbook or Invalid (it fails validation)
Invalid == [id |-> "invalid"]

\* Playbook(**pb_data) (src): pydantic takes only a member of EventType
Valid_src(entry) == entry # Invalid /\ entry.match_event_type \in EventTypes_src

\* Playbook.from_dict (stacks): any match_event_type string
Valid_stacks(entry) == entry # Invalid

SelectValid_src(entries) == SelectSeq(entries, Valid_src)
SelectValid_stacks(entries) == SelectSeq(entries, Valid_stacks)

\* PlaybookEngine.load_playbooks_from_file (src): the playbooks afterwards
load_playbooks_from_file(pbs, file) ==
    IF file.kind = "ok" THEN _sort_playbooks(pbs \o SelectValid_src(file.entries))
    ELSE pbs

\* PlaybookEngine.reload_playbooks (stacks): the playbooks afterwards
reload_playbooks(pbs, file) ==
    IF file.kind = "ok" THEN _sort_playbooks(SelectValid_stacks(file.entries))
    ELSE <<>>

\* PlaybookEngine.add_playbook (src)
add_playbook(pbs, p) == _sort_playbooks(Append(pbs, p))

\* PlaybookEngine.remove_playbook (src)
HasOtherId(p, playbook_id) == p.id # playbook_id
remove_playbook(pbs, playbook_id) ==
    SelectSeq(pbs, LAMBDA p : HasOtherId(p, playbook_id))

\* PlaybookEngine.get_playbook: the first playbook of that id, 0 for None
get_playbook(pbs, playbook_id) ==
    IF \E i \in 1..Len(pbs) : pbs[i].id = playbook_id
    THEN CHOOSE i \in 1..Len(pbs) :
            pbs[i].id = playbook_id /\ \A j \in 1..(i - 1) : pbs[j].id # playbook_id
    ELSE 0

(***************************************************************************)
(* The dispatchers.  A collaborator call ends "true", "false" or "raise";   *)
(* oc gives the outcome per collaborator.                                  *)
(***************************************************************************)
Outcomes == {"true", "false", "raise"}
Collaborators == {"tag_device", "send_notification"}

\* params.get(key): None when absent
Param(action, key) == IF key \in DOMAIN action.params THEN action.params[key] ELSE None

\* not v, for the values a parameter holds
Falsy(v) ==
    \/ v = None
    \/ v.t = "str" /\ v.s = <<>>
    \/ v.t = "num" /\ v.n = 0

Handled(ret, calls) == [ret |-> ret, calls |-> calls]

\* ActionHandler._handle_block_domain (stacks): no Pi-hole call is made yet
_handle_block_domain(action, execute, oc) ==
    IF Falsy(Param(action, "domain")) THEN Handled("false", {})
    ELSE Handled("true", {})

\* ActionHandler._handle_tag_device (stacks)
_handle_tag_device(action, execute, oc) ==
    IF Falsy(Param(action, "device_id")) \/ Falsy(Param(action, "tag"))
    THEN Handled("false", {})
    ELSE IF execute THEN Handled(oc["tag_device"], {"tag_device"})
    ELSE Handled("true", {})

\* ActionHandler._handle_send_notification (stacks)
_handle_send_notification(action, execute, oc) ==
    IF Falsy(Param(action, "message")) THEN Handled("false", {})
    ELSE IF execute THEN Handled(oc["send_notification"], {"send_notification"})
    ELSE Handled("true", {})

\* ActionHandler._handle_simulate (stacks)
_handle_simulate(action) == Handled("true", {})

\* ActionHandler._handle_log_event (stacks)
_handle_log_event(action, execute) == Handled("true", {})

\* the outcome of a dispatch: the TriggeredAction as execute leaves it, what
\* execute returned (stacks: its success) and the collaborators it called
Dispatched(ta, executed, success, error, calls) ==
    [ta |-> [ta EXCEPT !.executed = executed, !.success = success, !.error = error],
     calls |-> calls]

\* ActionHandler.execute (stacks) with an except clause that only logs: the
\* triggered action stays as evaluate_event created it
ActionHandler_execute_OnlyLogs(ta, dry_run, oc) ==
    LET should_execute == ~(global_dry_run \/ dry_run)
        action == ta.action
        h == CASE action.type = "BLOCK_DOMAIN" ->
                    _handle_block_domain(action, should_execute, oc)
               [] action.type = "TAG_DEVICE" ->
                    _handle_tag_device(action, should_execute, oc)
               [] action.type = "SEND_NOTIFICATION" ->
                    _handle_send_notification(action, should_execute, oc)
               [] action.type = "SIMULATE_ONLY" -> _handle_simulate(action)
               [] action.type = "LOG_EVENT" -> _handle_log_event(action, should_execute)
    IN  IF h.ret = "raise"
        THEN [ta |-> ta, calls |-> h.calls]
        ELSE Dispatched(ta, should_execute, h.ret, ta.error, h.calls)

\* ActionHandler.execute (stacks)
ActionHandler_execute(ta, dry_run, oc) ==
    LET should_execute == ~(global_dry_run \/ dry_run)
        action == ta.action
        h == CASE action.type = "BLOCK_DOMAIN" ->
                    _handle_block_domain(action, should_execute, oc)
               [] action.type = "TAG_DEVICE" ->
                    _handle_tag_device(action, should_execute, oc)
               [] action.type = "SEND_NOTIFICATION" ->
                    _handle_send_notification(action, should_execute, oc)
               [] action.type = "SIMULATE_ONLY" -> _handle_simulate(action)
               [] action.type = "LOG_EVENT" -> _handle_log_event(action, should_execute)
    IN  IF h.ret = "raise"
        THEN Dispatched(ta, should_execute, "false", TRUE, h.calls)
        ELSE Dispatched(ta, should_execute, h.ret, ta.error, h.calls)

\* ActionExecutor.execute_block_domain / execute_tag_device /
\* execute_send_notification (src): "raise" for the ValueError of a missing
\* parameter, a result otherwise; none of them calls a collaborator yet
execute_block_domain(action) ==
    IF Falsy(Param(action, "domain")) THEN "raise" ELSE "true"

execute_tag_device(action) ==
    IF Falsy(Param(action, "device_ip")) \/ Falsy(Param(action, "tag"))
    THEN "raise" ELSE "true"

execute_send_notification(action) ==
    IF Falsy(Param(action, "message")) THEN "raise" ELSE "true"

\* ActionExecutor.execute (src): the playbook's dry_run is not looked at
ActionExecutor_execute(ta) ==
    LET action == ta.action
        r == CASE action.type = "BLOCK_DOMAIN" -> execute_block_domain(action)
               [] action.type = "TAG_DEVICE" -> execute_tag_device(action)
               [] action.type = "SEND_NOTIFICATION" -> execute_send_notification(action)
               [] action.type = "LOG_EVENT" -> "true"
               [] action.type = "SIMULATE_ONLY" -> "true"
    IN  IF r = "raise"
        THEN Dispatched(ta, FALSE, "false", TRUE, {})
        ELSE Dispatched(ta, ~global_dry_run, "true", ta.error, {})

(***************************************************************************)
(* The services.                                                           *)
(***************************************************************************)
EventTypes_stacks ==
    {"intel_match", "device_anomaly", "domain_risk", "new_device", "honeypot_hit",
     "change_event", "soar_action", "security_health_update", "threat_feed_update",
     "suricata_alert"}

\* SOARService._fetch_events (stacks), the conversion of one log entry: the id
\* defaults to "unknown"
EventOfLog(entry) ==
    [event_id |-> IF "event_id" \in DOMAIN entry THEN entry.event_id ELSE "unknown",
     event_type |-> entry.event_type,
     fields |-> entry.metadata]

ParsesAsEvent(entry) == entry.event_type \in EventTypes_stacks

\* what loki_client.query_range ends with: it raised, or it returned logs
QueryFailed == [failed |-> TRUE, logs |-> <<>>]
QueryReturned(logs) == [failed |-> FALSE, logs |-> logs]

\* SOARService._fetch_events (stacks): no events when the query raises; a log
\* entry of no known event type is dropped
_fetch_events(fetched) ==
    IF fetched.failed THEN <<>>
    ELSE LET parsed == SelectSeq(fetched.logs, ParsesAsEvent)
         IN  [k \in 1..Len(parsed) |-> EventOfLog(parsed[k])]

\* run_once (stacks), the filter: the events whose id is not yet processed
NotProcessed(e) == e.event_id \notin processed_event_ids

\* run_once without the filter: every fetched event is new
NewEvents_Unfiltered(events) == SelectSeq(events, LAMBDA e : TRUE)

NewEvents(events) == SelectSeq(events, NotProcessed)

\* the loop over the triggered actions taken from the last one to the first
RECURSIVE DispatchAll_stacks_Reversed(_, _, _)
DispatchAll_stacks_Reversed(tas, k, oc) ==
    IF k > Len(tas) THEN <<>>
    ELSE LET playbook == get_playbook(playbooks, tas[k].playbook_id)
             dry_run == IF playbook = 0 THEN FALSE ELSE playbooks[playbook].dry_run
         IN  DispatchAll_stacks_Reversed(tas, k + 1, oc)
             \o <<ActionHandler_execute(tas[k], dry_run, oc)>>

\* run_once (stacks), lines 91-102: get_playbook, execute, count, emit for the
\* triggered actions from tas[k] on
RECURSIVE DispatchAll_stacks(_, _, _)
DispatchAll_stacks(tas, k, oc) ==
    IF k > Len(tas) THEN <<>>
    ELSE LET playbook == get_playbook(playbooks, tas[k].playbook_id)
             dry_run == IF playbook = 0 THEN FALSE ELSE playbooks[playbook].dry_run
         IN  <<ActionHandler_execute(tas[k], dry_run, oc)>>
             \o DispatchAll_stacks(tas, k + 1, oc)

\* the metadata of a soar_action event, built from a triggered action as
\* evaluate_event created it
_emit_soar_action_event_AsCreated(ta) ==
    [playbook_id |-> ta.playbook_id, action_type |-> ta.action.type,
     original_event_id |-> ta.event_id,
     executed |-> FALSE, success |-> "unknown", error |-> FALSE]

\* SOARService._emit_soar_action_event (stacks): the metadata of the
\* soar_action event it builds from the triggered action
_emit_soar_action_event(ta) ==
    [playbook_id |-> ta.playbook_id, action_type |-> ta.action.type,
     original_event_id |-> ta.event_id,
     executed |-> ta.executed, success |-> ta.success, error |-> ta.error]

\* ActionLogger.log_action (src): the entry it logs; no push is made yet
log_action(ta) ==
    [playbook_id |-> ta.playbook_id, action_type |-> ta.action.type,
     executed |-> ta.executed, success |-> ta.success, error |-> ta.error]

\* the entries of the log for the event at position n of the new events;
\* outcomes is history: how each collaborator call of the entry ended.
\* emitted is what run_once hands to emit_new_event after execute (line
\* 102); emit_event swallows a failed push, so delivered is sink_up.
LogOf(dispatched, n, oc) ==
    [k \in 1..Len(dispatched) |->
        [ta |-> dispatched[k].ta, calls |-> dispatched[k].calls, occurrence |-> n,
         outcomes |-> [c \in dispatched[k].calls |-> oc[c]],
         emitted |-> _emit_soar_action_event(dispatched[k].ta),
         delivered |-> sink_up]]

CountSuccess(dispatched) ==
    Cardinality({k \in 1..Len(dispatched) : dispatched[k].ta.success = "true"})

\* run_once (stacks), the loop over the new events from position n on; acc is
\* what the call did so far.  An evaluate_event that raises ends the call.
RECURSIVE RunEvents(_, _, _, _)
RunEvents(new_events, n, oc, acc) ==
    IF n > Len(new_events) THEN acc
    ELSE LET ev == new_events[n]
             tas == evaluate_event_stacks(playbooks, ev)
         IN  IF tas.raised THEN [acc EXCEPT !.raised = TRUE]
             ELSE LET dispatched == DispatchAll_stacks(tas.list, 1, oc)
                  IN  RunEvents(new_events, n + 1, oc,
                        [acc EXCEPT !.log = @ \o LogOf(dispatched, n, oc),
                                    !.total_actions = @ + CountSuccess(dispatched),
                                    !.ids = @ \cup {ev.event_id}])

\* SOARService.run_once (stacks).  fetched: what the query gives; fresh: the
\* number of further fetched events, each of an id never seen and of a type
\* no playbook is for; they stand in the batch ahead of the followed events
\* or behind them, so a call that evaluate_event ends by raising has added
\* all of them or none.  The trim keeps 5000 elements of a set in the order
\* of its iteration, which is any: kept is the followed ids among them.
run_once(fetched, fresh, oc) ==
    /\ impl = "stacks"
    /\ fetched.failed => fresh = 0
    /\ Len(fetched.logs) + fresh <= QueryLimit
    /\ \E events \in {_fetch_events(fetched)} :
       \E done \in {RunEvents(NewEvents(events), 1, oc,
                        [log |-> <<>>, total_actions |-> 0,
                         ids |-> processed_event_ids, raised |-> FALSE])} :
       \E added \in (IF done.raised THEN {0, fresh} ELSE {fresh}) :
        LET others == other_processed + added
            size == Cardinality(done.ids) + others
            trims == ~done.raised /\ size > WindowLimit
        IN  /\ IF trims
               THEN \E kept \in SUBSET done.ids :
                    /\ WindowKeep - Cardinality(kept) <= others
                    /\ processed_event_ids' = kept
                    /\ other_processed' = WindowKeep - Cardinality(kept)
               ELSE /\ processed_event_ids' = done.ids
                    /\ other_processed' = others
            /\ log' = done.log
            /\ cycle' = [op |-> "run_once", start_ids |-> processed_event_ids,
                         events |-> events, raised |-> done.raised,
                         returned |-> done.total_actions, trimmed |-> trims]
    /\ UNCHANGED <<engine_vars, global_dry_run, process_vars, analyzer_vars>>

\* PlaybookEngine.run_playbooks_on_events (src); occurrence is history: the
\* position of the event among those given
RECURSIVE run_playbooks_on_events(_, _)
run_playbooks_on_events(events, n) ==
    IF n > Len(events) THEN <<>>
    ELSE LET tas == evaluate_event_src(playbooks, events[n]).list
         IN  [k \in 1..Len(tas) |-> [ta |-> tas[k], occurrence |-> n]]
             \o run_playbooks_on_events(events, n + 1)

\* SoarService.process_events (src), lines 114-126: execute and log each
ExecuteAll_src(triggered) ==
    [k \in 1..Len(triggered) |->
        LET d == ActionExecutor_execute(triggered[k].ta)
        IN  [ta |-> d.ta, calls |-> d.calls, occurrence |-> triggered[k].occurrence,
             outcomes |-> [c \in d.calls |-> "true"],
             emitted |-> log_action(d.ta), delivered |-> TRUE]]

\* SoarService.process_events (src)
process_events(events) ==
    /\ impl = "src"
    /\ \E results \in {ExecuteAll_src(run_playbooks_on_events(events, 1))} :
        /\ log' = results
        /\ cycle' = [op |-> "process_events", start_ids |-> {}, events |-> events,
                     raised |-> FALSE, returned |-> Len(results), trimmed |-> FALSE]
    /\ UNCHANGED <<engine_vars, global_dry_run, processed_event_ids, other_processed,
                   process_vars, analyzer_vars>>

\* SoarService.run_once (src): fetch_events_from_loki is a placeholder that
\* returns no events, so process_events gets none
run_once_src ==
    /\ impl = "src"
    /\ log' = <<>>
    /\ cycle' = [op |-> "run_once", start_ids |-> {}, events |-> <<>>,
                 raised |-> FALSE, returned |-> 0, trimmed |-> FALSE]
    /\ UNCHANGED <<engine_vars, global_dry_run, processed_event_ids, other_processed,
                   process_vars, analyzer_vars>>

NoCycle == [op |-> "none", start_ids |-> {}, events |-> <<>>, raised |-> FALSE,
            returned |-> 0, trimmed |-> FALSE]

\* no service process: the runs that call the operations one by one
NoLoop == [pc |-> "none"]

ProcessUnused ==
    /\ sink_up = TRUE
    /\ running = FALSE
    /\ loop = NoLoop

\* a Baseline of no device
NoBaseline == [device_ips |-> <<>>]

\* no call of compare_baselines
NoChanges == [called |-> FALSE, list |-> <<>>]

AnalyzerUnused ==
    /\ previous_baseline = NoBaseline
    /\ current_baseline = NoBaseline
    /\ changes = NoChanges

\* the services as constructed, for the runs that are about the engine alone
ServiceUnused ==
    /\ global_dry_run = TRUE
    /\ processed_event_ids = {}
    /\ other_processed = 0
    /\ cycle = NoCycle
    /\ log = <<>>
    /\ ProcessUnused
    /\ AnalyzerUnused

(***************************************************************************)
(* Inputs of the bounded runs.                                             *)
(***************************************************************************)
SeqsUpTo(S, n) == UNION {[1..k -> S] : k \in 0..n}

Range(f) == {f[x] : x \in DOMAIN f}

Priorities == {50, 80}

NoEvent == [event_id |-> "none", event_type |-> "none", fields |-> [k \in {} |-> None]]

LogEvent == [type |-> "LOG_EVENT", params |-> [k \in {} |-> None]]

\* the playbooks of the store runs: what the store looks at is id and priority
StorePlaybooks ==
    [id : {"B", "C", "D"}, enabled : {TRUE}, match_event_type : {"intel_match"},
     conditions : {<<>>}, actions : {<<LogEvent>>}, dry_run : {TRUE},
     priority : Priorities]

FileKinds == {"missing", "unparsable", "nokey", "ok"}

File(kind, entries) == [kind |-> kind, entries |-> entries]

StoreFiles ==
    {File(k, <<>>) : k \in FileKinds \ {"ok"}}
    \cup {File("ok", es) : es \in SeqsUpTo(StorePlaybooks \cup {Invalid}, MaxFileEntries)}

(***************************************************************************)
(* Store operations.                                                       *)
(***************************************************************************)
EngineUntouched ==
    UNCHANGED <<event, triggered_actions, service_vars, process_vars, analyzer_vars>>

\* PlaybookEngine.load_playbooks_from_file (src)
LoadPlaybooksFromFile(file) ==
    /\ impl = "src"
    /\ Len(playbooks) + Len(file.entries) <= MaxPlaybooks
    /\ playbooks' = load_playbooks_from_file(playbooks, file)
    /\ load_order' = IF file.kind = "ok"
                     THEN load_order \o SelectValid_src(file.entries)
                     ELSE load_order
    /\ last_op' = [op |-> "load",
                   result |-> IF file.kind \in {"missing", "unparsable"}
                              THEN "raised" ELSE "returned"]
    /\ UNCHANGED impl
    /\ EngineUntouched

\* PlaybookEngine.add_playbook (src)
AddPlaybook(p) ==
    /\ impl = "src"
    /\ Len(playbooks) < MaxPlaybooks
    /\ playbooks' = add_playbook(playbooks, p)
    /\ load_order' = Append(load_order, p)
    /\ last_op' = [op |-> "add", result |-> "returned"]
    /\ UNCHANGED impl
    /\ EngineUntouched

\* PlaybookEngine.remove_playbook (src)
RemovePlaybook(playbook_id) ==
    /\ impl = "src"
    /\ playbooks' = remove_playbook(playbooks, playbook_id)
    /\ load_order' = remove_playbook(load_order, playbook_id)
    /\ last_op' = [op |-> "remove",
                   result |-> IF Len(playbooks') < Len(playbooks) THEN "true" ELSE "false"]
    /\ UNCHANGED impl
    /\ EngineUntouched

\* PlaybookEngine.reload_playbooks (stacks)
ReloadPlaybooks(file) ==
    /\ impl = "stacks"
    /\ playbooks' = reload_playbooks(playbooks, file)
    /\ load_order' = IF file.kind = "ok" THEN SelectValid_stacks(file.entries) ELSE <<>>
    /\ last_op' = [op |-> "reload", result |-> "returned"]
    /\ UNCHANGED impl
    /\ EngineUntouched

\* PlaybookEngine.__init__: src sorts the list it is given (none in main),
\* stacks reloads from its file
InitStore ==
    /\ impl \in {"src", "stacks"}
    /\ \E file \in StoreFiles :
        /\ impl = "src" => file.kind = "ok" /\ file.entries = SelectValid_src(file.entries)
        /\ playbooks = IF impl = "src" THEN _sort_playbooks(file.entries)
                       ELSE reload_playbooks(<<>>, file)
        /\ load_order = IF impl = "src" THEN file.entries
                        ELSE IF file.kind = "ok" THEN SelectValid_stacks(file.entries)
                        ELSE <<>>
    /\ last_op = [op |-> "init", result |-> "returned"]
    /\ event = NoEvent
    /\ triggered_actions = Returned(<<>>)
    /\ ServiceUnused

NextStore ==
    \/ \E file \in StoreFiles : LoadPlaybooksFromFile(file)
    \/ \E p \in StorePlaybooks : AddPlaybook(p)
    \/ \E id \in {"B", "C", "D"} : RemovePlaybook(id)
    \/ \E file \in StoreFiles : ReloadPlaybooks(file)

SpecStore == InitStore /\ [][NextStore]_vars

(***************************************************************************)
(* Claims about the store.                                                 *)
(***************************************************************************)
HasPriority(p, v) == p.priority = v
OfPriority(list, v) == SelectSeq(list, LAMBDA p : HasPriority(p, v))

StorePlaybook(id, priority) ==
    [id |-> id, enabled |-> TRUE, match_event_type |-> "intel_match",
     conditions |-> <<>>, actions |-> <<LogEvent>>, dry_run |-> TRUE,
     priority |-> priority]

Root == IF impl = "src" THEN "fields" ELSE "metadata"

High == Str(<<104, 105, 103, 104>>)                        \* "high"
Domain == Str(<<120, 46, 105, 111>>)                       \* "x.io"

\* confidence >= 90
ConfidenceGE == [field |-> <<Root, "confidence">>, operator |-> ">=",
                 value |-> Num(90), negate |-> FALSE]

\* confidence is not 50: "== 50" negated in src, "!= 50" in stacks, whose
\* Condition has no negate
ConfidenceNot50 ==
    IF impl = "src"
    THEN [field |-> <<Root, "confidence">>, operator |-> "==",
          value |-> Num(50), negate |-> TRUE]
    ELSE [field |-> <<Root, "confidence">>, operator |-> "!=", value |-> Num(50)]

BlockDomain == [type |-> "BLOCK_DOMAIN", params |-> [domain |-> Domain]]
TagDevice ==
    [type |-> "TAG_DEVICE",
     params |-> [k \in {IF impl = "src" THEN "device_ip" ELSE "device_id", "tag"} |-> High]]

EvalTypes == IF impl = "src" THEN EventTypes_src ELSE {"intel_match", Wildcard}

PlaybookIds == <<"p1", "p2", "p3", "p4">>

\* the entries of a playbooks file; the entry at position i has id PlaybookIds[i]
EvalEntries ==
    [id : {"p"}, enabled : BOOLEAN, match_event_type : EvalTypes,
     conditions : {<<>>, <<ConfidenceGE, ConfidenceNot50>>},
     actions : {<<BlockDomain>>, <<LogEvent, TagDevice>>},
     dry_run : {TRUE}, priority : Priorities]

WithIds(entries) == [i \in 1..Len(entries) |-> [entries[i] EXCEPT !.id = PlaybookIds[i]]]

EvalPayloads ==
    {[k \in {} |-> None]} \cup {[confidence |-> v] : v \in {Num(50), Num(95), High}}

EvalEvents == [event_id : {"e1"}, event_type : EventTypes_src, fields : EvalPayloads]

(***************************************************************************)
(* Evaluation runs: a store as the engine holds it after loading a file,    *)
(* and evaluate_event applied to an event.                                 *)
(***************************************************************************)
InitEngine ==
    /\ impl \in {"src", "stacks"}
    /\ \E entries \in SeqsUpTo(EvalEntries, MaxEvalPlaybooks) :
        /\ load_order = WithIds(entries)
        /\ playbooks = _sort_playbooks(load_order)
    /\ last_op = [op |-> "init", result |-> "returned"]
    /\ event = NoEvent
    /\ triggered_actions = Returned(<<>>)
    /\ ServiceUnused

\* PlaybookEngine.evaluate_event, applied once to the store of the run (it
\* changes nothing in the engine)
EvaluateEvent(e) ==
    /\ event = NoEvent
    /\ event' = e
    /\ triggered_actions' = evaluate_event(playbooks, e)
    /\ UNCHANGED <<impl, playbooks, load_order, last_op, service_vars,
                   process_vars, analyzer_vars>>

NextEngine == \E e \in EvalEvents : EvaluateEvent(e)

SpecEngine == InitEngine /\ [][NextEngine]_vars

(***************************************************************************)
(* Claims about evaluate_event.  They speak of the list evaluate_event      *)
(* returns; a call that raises (stacks, a comparison between values that   *)
(* Python does not order) returns none.                                    *)
(***************************************************************************)
Evaluated == event # NoEvent
Result == triggered_actions.list

Condition_evaluate(c, e) ==
    IF impl = "src" THEN Condition_evaluate_src(c, e) ELSE Condition_evaluate_stacks(c, e)

TypeMatches(pb, e) ==
    pb.match_event_type = e.event_type \/ pb.match_event_type = Wildcard

AllConditionsTrue(pb, e) ==
    \A k \in 1..Len(pb.conditions) : Condition_evaluate(pb.conditions[k], e) = "T"

\* the positions, in the result, of the actions playbook i produced
PositionsBy(i) == {k \in 1..Len(Result) : Result[k].by = i}

\* the part of the result playbook i produced
ResultBy(i) == SelectSeq(Result, LAMBDA ta : ta.by = i)

\* C7: for all events E and every loaded playbook P with enabled=false,
\* evaluate_event(E) never yields a TriggeredAction produced by P.
C7_DisabledNeverYields ==
    \A k \in 1..Len(Result) : playbooks[Result[k].by].enabled

\* C7 witness: an event was evaluated against a store that holds a disabled
\* playbook which has actions, is of the event's type and has no condition
C7_Witness ==
    /\ Evaluated /\ ~triggered_actions.raised
    /\ \E i \in 1..Len(playbooks) :
        /\ ~playbooks[i].enabled
        /\ playbooks[i].match_event_type = event.event_type
        /\ playbooks[i].conditions = <<>>
        /\ playbooks[i].actions # <<>>
        /\ PositionsBy(i) = {}

Message == Str(<<109, 115, 103>>)                          \* "msg"

SendNotification == [type |-> "SEND_NOTIFICATION", params |-> [message |-> Message]]
SimulateOnly == [type |-> "SIMULATE_ONLY", params |-> [k \in {} |-> None]]
BlockNoDomain == [type |-> "BLOCK_DOMAIN", params |-> [k \in {} |-> None]]

\* playbooks for every intel_match event; what the dispatch looks at is id,
\* dry_run and the actions
DispatchEntries ==
    [id : {"a", "b"}, enabled : {TRUE}, match_event_type : {"intel_match"},
     conditions : {<<>>},
     actions : {<<TagDevice, LogEvent>>, <<SendNotification, SimulateOnly>>,
                <<BlockDomain, BlockNoDomain>>},
     dry_run : BOOLEAN, priority : {50}]

\* log entries of the events stream, one with an event_id, one without
Logs ==
    {[event_id |-> "e1", event_type |-> "intel_match", metadata |-> [k \in {} |-> None]],
     [event_type |-> "intel_match", metadata |-> [k \in {} |-> None]]}

\* the events process_events (src) is given
ServiceEvents ==
    [event_id : {"e1"}, event_type : {"intel_match"}, fields : {[k \in {} |-> None]}]

\* the collaborator an action of that type calls
CollaboratorOf(type) ==
    CASE type = "TAG_DEVICE" -> "tag_device"
      [] type = "SEND_NOTIFICATION" -> "send_notification"
      [] OTHER -> "none"

\* the collaborators the playbooks of the store can call
Callable ==
    UNION {{CollaboratorOf(playbooks[i].actions[k].type) :
                k \in 1..Len(playbooks[i].actions)} : i \in 1..Len(playbooks)}
        \cap Collaborators

\* an outcome for each collaborator; one that no playbook calls has none to
\* choose
OutcomesOfCalls ==
    {oc \in [Collaborators -> Outcomes] :
        \A c \in Collaborators \ Callable : oc[c] = "true"}

(***************************************************************************)
(* Service operations.                                                     *)
(***************************************************************************)
\* SOARService.run_once (stacks)
RunOnce(fetched, fresh) ==
    /\ other_processed + fresh <= MaxWindow
    /\ \E oc \in OutcomesOfCalls : run_once(fetched, fresh, oc)

\* SoarService.run_once (src)
RunOnceSrc == run_once_src

\* SoarService.process_events (src)
ProcessEvents(events) == process_events(events)

(***************************************************************************)
(* Dispatch runs: a store of playbooks that differ in id, dry_run and       *)
(* actions, a global dry-run flag, and single events sent through the      *)
(* service.                                                                *)
(***************************************************************************)
InitDispatch ==
    /\ impl \in {"src", "stacks"}
    /\ \E entries \in SeqsUpTo(DispatchEntries, MaxDispatchPlaybooks) :
        /\ load_order = entries
        /\ playbooks = _sort_playbooks(entries)
    /\ last_op = [op |-> "init", result |-> "returned"]
    /\ event = NoEvent
    /\ triggered_actions = Returned(<<>>)
    /\ global_dry_run \in BOOLEAN
    /\ processed_event_ids = {}
    /\ other_processed = 0
    /\ cycle = NoCycle
    /\ log = <<>>
    /\ ProcessUnused
    /\ AnalyzerUnused

NextDispatch ==
    \/ \E entry \in Logs : RunOnce(QueryReturned(<<entry>>), 0)
    \/ \E e \in ServiceEvents : ProcessEvents(<<e>>)

SpecDispatch == InitDispatch /\ [][NextDispatch]_vars

(***************************************************************************)
(* Service runs: cycles over batches of events, with the window of          *)
(* processed ids.                                                          *)
(***************************************************************************)
ServiceStores ==
    {<<p>> : p \in {q \in DispatchEntries :
                        q.id = "a" /\ q.actions = <<TagDevice, LogEvent>>}}

Init ==
    /\ impl \in {"src", "stacks"}
    /\ playbooks \in ServiceStores
    /\ load_order = playbooks
    /\ last_op = [op |-> "init", result |-> "returned"]
    /\ event = NoEvent
    /\ triggered_actions = Returned(<<>>)
    /\ global_dry_run \in BOOLEAN
    /\ processed_event_ids = {}
    /\ other_processed = 0
    /\ cycle = NoCycle
    /\ log = <<>>
    /\ ProcessUnused
    /\ AnalyzerUnused

Next ==
    \/ \E logs \in SeqsUpTo(Logs, MaxBatch), fresh \in {0, FreshBatch} :
            RunOnce(QueryReturned(logs), fresh)
    \/ RunOnce(QueryFailed, 0)
    \/ RunOnceSrc
    \/ \E events \in SeqsUpTo(ServiceEvents, MaxBatch) : ProcessEvents(events)

Spec == Init /\ [][Next]_vars
(***************************************************************************)
(* The scheduler's cycles (C1, C2).                                        *)
(***************************************************************************)
\* the ids of the events the last cycle dispatched actions for
DispatchedIds == {log[k].ta.event_id : k \in 1..Len(log)}

\* C1: an event whose id is retained in the Processed-Event Window when a
\* run_once cycle starts is filtered out by that cycle: no action is
\* dispatched or audited for it, so its actions were dispatched only by the
\* cycle that first saw it.
C1_SeenEventsFiltered ==
    (impl = "stacks" /\ cycle.op = "run_once") =>
        DispatchedIds \cap cycle.start_ids = {}

\* C1 witness: a cycle fetches an event whose id an earlier cycle put in the
\* window, together with a new one; the playbook is for both, and only the
\* new one's actions are in the log
C1_Witness ==
    /\ impl = "stacks" /\ cycle.op = "run_once" /\ ~cycle.raised
    /\ \E m, n \in 1..Len(cycle.events) :
        /\ cycle.events[m].event_id \in cycle.start_ids
        /\ matches(playbooks[1], cycle.events[m]) = "T"
        /\ cycle.events[m].event_id \notin DispatchedIds
        /\ cycle.events[n].event_id \notin cycle.start_ids
        /\ cycle.events[n].event_id \in DispatchedIds

\* C2: inside one cycle the actions of an event id are dispatched for one
\* occurrence only, also when the fetched batch holds the id more than once
\* (several events of the default id included).
C2_OneOccurrencePerId ==
    (impl = "stacks" /\ cycle.op = "run_once") =>
        \A j, k \in 1..Len(log) :
            log[j].ta.event_id = log[k].ta.event_id
                => log[j].occurrence = log[k].occurrence

(***************************************************************************)
(* The dispatchers' dry-run accounting (C3 to C6).                         *)
(***************************************************************************)
Mutating == {"BLOCK_DOMAIN", "TAG_DEVICE", "SEND_NOTIFICATION"}

\* the dry_run flag of the playbook that produced the action of a log entry
ProducerDryRun(entry) == playbooks[entry.ta.by].dry_run

\* C3: for every triggered action of type BLOCK_DOMAIN, TAG_DEVICE or
\* SEND_NOTIFICATION, after execute returns, executed equals NOT (global
\* dry-run OR the dry_run flag of the playbook that produced the action), in
\* both dispatcher implementations.
C3_ExecutedIsNotDryRun ==
    \A k \in 1..Len(log) :
        log[k].ta.action.type \in Mutating
            => log[k].ta.executed = ~(global_dry_run \/ ProducerDryRun(log[k]))

\* C4: when the global dry-run flag or the dry_run flag of the playbook that
\* produced a BLOCK_DOMAIN, TAG_DEVICE or SEND_NOTIFICATION action is true,
\* the dispatcher makes no collaborator call for that action.
C4_DryRunMakesNoCall ==
    \A k \in 1..Len(log) :
        (/\ log[k].ta.action.type \in Mutating
         /\ (global_dry_run \/ ProducerDryRun(log[k])))
            => log[k].calls = {}

\* C5: for a SIMULATE_ONLY action executed is false after execute returns,
\* whatever the dry-run flags, and no collaborator is called.
C5_SimulateNeverExecuted ==
    \A k \in 1..Len(log) :
        log[k].ta.action.type = "SIMULATE_ONLY"
            => (~log[k].ta.executed /\ log[k].calls = {})

\* C6: for a LOG_EVENT action executed is true after execute returns,
\* whatever the dry-run flags.
C6_LogEventAlwaysExecuted ==
    \A k \in 1..Len(log) :
        log[k].ta.action.type = "LOG_EVENT" => log[k].ta.executed
(***************************************************************************)
(* Cycle runs: stores of playbooks of two priorities, with and without a   *)
(* condition on the confidence, and batches of events whose confidence is  *)
(* a number or a string.                                                   *)
(***************************************************************************)
CycleEntries ==
    [id : {"p"}, enabled : {TRUE}, match_event_type : {"intel_match"},
     conditions : {<<>>, <<ConfidenceGE>>},
     actions : {<<TagDevice, LogEvent>>},
     dry_run : {FALSE}, priority : Priorities]

\* log entries of the events stream: e1 has confidence 95, e2 confidence "high"
CycleLogs ==
    {[event_id |-> "e1", event_type |-> "intel_match", metadata |-> [confidence |-> Num(95)]],
     [event_id |-> "e2", event_type |-> "intel_match", metadata |-> [confidence |-> High]]}

\* the same events as process_events (src) is given them
CycleEvents == {EventOfLog(entry) : entry \in CycleLogs}

InitCycle ==
    /\ impl \in {"src", "stacks"}
    /\ \E entries \in SeqsUpTo(CycleEntries, MaxCyclePlaybooks) :
        /\ load_order = WithIds(entries)
        /\ playbooks = _sort_playbooks(load_order)
    /\ last_op = [op |-> "init", result |-> "returned"]
    /\ event = NoEvent
    /\ triggered_actions = Returned(<<>>)
    /\ global_dry_run \in BOOLEAN
    /\ processed_event_ids = {}
    /\ other_processed = 0
    /\ cycle = NoCycle
    /\ log = <<>>
    /\ ProcessUnused
    /\ AnalyzerUnused

NextCycle ==
    \/ \E logs \in SeqsUpTo(CycleLogs, MaxCycleBatch) : RunOnce(QueryReturned(logs), 0)
    \/ \E events \in SeqsUpTo(CycleEvents, MaxCycleBatch) : ProcessEvents(events)

SpecCycle == InitCycle /\ [][NextCycle]_vars

(***************************************************************************)
(* The order of dispatch within a cycle (C11).  The log holds the          *)
(* dispatched actions in the order of their dispatch.                      *)
(***************************************************************************)
CycleRan == cycle.op \in {"run_once", "process_events"}

\* the events of the last cycle that passed the filter, in fetched order
PassedFilter == SelectSeq(cycle.events, LAMBDA e : e.event_id \notin cycle.start_ids)

\* the actions the last cycle dispatched for the event at position n that
\* playbook i produced, in the order of their dispatch
DispatchedFor(n, i) ==
    LET part == SelectSeq(log, LAMBDA entry : entry.occurrence = n /\ entry.ta.by = i)
    IN  [k \in 1..Len(part) |-> part[k].ta.action]

C12_FailedReloadKeepsPlaybooks ==
    [][\A file \in StoreFiles :
            (file.kind # "ok" /\ ReloadPlaybooks(file)) => playbooks' = playbooks]_vars

(***************************************************************************)
(* Reloads with a reader (C13).  reload_playbooks takes no lock and works   *)
(* on self.playbooks itself: it binds an empty list, appends the playbooks  *)
(* of the file one by one and sorts at the end.  A reader in another        *)
(* thread runs between any two of these steps.                             *)
(***************************************************************************)
Reloading == last_op.op = "reload" /\ last_op.result = "running"

\* reload_playbooks (stacks), line 49 and the checks up to line 62:
\* self.playbooks = [], and return 0 unless the file gives a list of entries
ReloadBegin(file) ==
    /\ impl = "stacks"
    /\ ~Reloading
    /\ playbooks' = <<>>
    /\ load_order' = <<>>
    /\ last_op' = [op |-> "reload",
                   result |-> IF file.kind = "ok" THEN "running" ELSE "returned",
                   previous |-> playbooks, file |-> file, next |-> 1]
    /\ UNCHANGED impl
    /\ EngineUntouched

\* reload_playbooks (stacks), lines 65-70: one turn of the loop over the entries
ReloadAppend ==
    /\ Reloading
    /\ last_op.next <= Len(last_op.file.entries)
    /\ LET entry == last_op.file.entries[last_op.next]
       IN  /\ playbooks' = IF Valid_stacks(entry) THEN Append(playbooks, entry)
                           ELSE playbooks
           /\ load_order' = IF Valid_stacks(entry) THEN Append(load_order, entry)
                            ELSE load_order
    /\ last_op' = [last_op EXCEPT !.next = @ + 1]
    /\ UNCHANGED impl
    /\ EngineUntouched

\* reload_playbooks (stacks), lines 73-76: the sort, and the return
ReloadSort ==
    /\ Reloading
    /\ last_op.next > Len(last_op.file.entries)
    /\ playbooks' = _sort_playbooks(playbooks)
    /\ last_op' = [last_op EXCEPT !.result = "returned"]
    /\ UNCHANGED <<impl, load_order>>
    /\ EngineUntouched

InitReload == InitStore /\ impl = "stacks"

NextReload ==
    \/ \E file \in StoreFiles : ReloadBegin(file)
    \/ ReloadAppend
    \/ ReloadSort
    \/ \E e \in ServiceEvents : EvaluateEvent(e)

SpecReload == InitReload /\ [][NextReload]_vars

\* C13: an evaluate_event that runs while reload_playbooks is running sees
\* either the complete previous list or the complete new sorted list, never
\* an empty, partly filled or unsorted one: what it returns is what one of
\* the two lists gives.
C13_ReaderSeesWholeList ==
    [][(Reloading /\ event = NoEvent /\ event' # NoEvent) =>
            triggered_actions' \in
                {evaluate_event(last_op.previous, event'),
                 evaluate_event(reload_playbooks(<<>>, last_op.file), event')}]_vars

(***************************************************************************)
(* The ids of the store (C14).                                             *)
(***************************************************************************)
\* C14: in every reachable state of the store no two loaded playbooks have
\* the same id.
C14_IdsUnique ==
    \A i, j \in 1..Len(playbooks) : playbooks[i].id = playbooks[j].id => i = j

(***************************************************************************)
(* Condition runs (src): a store of one playbook with one condition, over  *)
(* every operator, and events whose payload has or lacks the segments of   *)
(* the condition's path.                                                   *)
(***************************************************************************)
CondPaths ==
    {<<"fields", "confidence">>, <<"fields", "intel", "score">>, <<"extra">>}

CondValues == {Num(90), High, Lst(<<Num(95), High>>)}

CondConditions ==
    [field : CondPaths, operator : Operators_src, value : CondValues, negate : BOOLEAN]

CondPlaybook(c) ==
    [id |-> "p1", enabled |-> TRUE, match_event_type |-> "intel_match",
     conditions |-> <<c>>, actions |-> <<LogEvent>>, dry_run |-> TRUE, priority |-> 50]

\* payloads: empty; a confidence; intel that is no dict; intel without score;
\* intel with a score
CondPayloads ==
    {[k \in {} |-> None],
     [confidence |-> Num(95)],
     [intel |-> High],
     [intel |-> EmptyDict],
     [intel |-> Dict([score |-> Num(95)])]}

CondEvents == [event_id : {"e1"}, event_type : {"intel_match"}, fields : CondPayloads]

InitCondition ==
    /\ impl = "src"
    /\ \E c \in CondConditions :
        /\ load_order = <<CondPlaybook(c)>>
        /\ playbooks = load_order
    /\ last_op = [op |-> "init", result |-> "returned"]
    /\ event = NoEvent
    /\ triggered_actions = Returned(<<>>)
    /\ ServiceUnused

NextCondition == \E e \in CondEvents : EvaluateEvent(e)

SpecCondition == InitCondition /\ [][NextCondition]_vars

\* does the dict hold something at every segment of the path
RECURSIVE HasPath(_, _)
HasPath(current, parts) ==
    \/ parts = <<>>
    \/ /\ current.t = "dict"
       /\ Head(parts) \in DOMAIN current.d
       /\ HasPath(current.d[Head(parts)], Tail(parts))

\* C15: a condition whose dot path has a segment absent from the event is
\* false when negate is false and true when negate is true, for every
\* operator and comparison value; the playbook of that one condition yields
\* its action exactly in the second case.
C15_MissingFieldGivesNegate ==
    Evaluated =>
        \A k \in 1..Len(playbooks[1].conditions) :
            LET c == playbooks[1].conditions[k]
            IN  ~HasPath(EventDict_src(event), c.field) =>
                    /\ Condition_evaluate_src(c, event) = (IF c.negate THEN "T" ELSE "F")
                    /\ (Result # <<>>) = c.negate

\* C15 witness: fields.confidence >= 90 with negate against an event with no
\* confidence: the playbook yields its action
C15_Witness ==
    /\ Evaluated
    /\ playbooks[1].conditions = <<[ConfidenceGE EXCEPT !.negate = TRUE]>>
    /\ "confidence" \notin DOMAIN event.fields
    /\ Len(Result) = 1

(***************************************************************************)
(* Failures within a cycle (C16, C17).                                     *)
(***************************************************************************)
\* what playbook i is to give for event e when a condition that fails to
\* compare counts as false
ExpectedFor(i, e) ==
    IF /\ playbooks[i].enabled
       /\ TypeMatches(playbooks[i], e)
       /\ AllConditionsTrue(playbooks[i], e)
    THEN playbooks[i].actions
    ELSE <<>>

\* C16: a condition whose comparison fails with a type mismatch resolves to
\* false and is contained: evaluate_event does not raise to the cycle, and
\* the remaining playbooks and the remaining events of the cycle are still
\* evaluated and their actions dispatched.
C16_TypeMismatchContained ==
    CycleRan =>
        /\ ~cycle.raised
        /\ \A n \in 1..Len(PassedFilter), i \in 1..Len(playbooks) :
            DispatchedFor(n, i) = ExpectedFor(i, PassedFilter[n])

\* did a collaborator call of the log entry raise
CallRaised(entry) == \E c \in entry.calls : entry.outcomes[c] = "raise"

\* does the cycle get to the event at position n: evaluate_event returns for
\* it and for every event before it
Reached(n) ==
    \A m \in 1..n : ~evaluate_event(playbooks, PassedFilter[m]).raised

FetchStores ==
    {<<[p EXCEPT !.conditions = <<ConfidenceGE>>]>> : p \in UNION {Range(st) : st \in ServiceStores}}

\* the log entries of the fetch runs: those of the service runs and e2, whose
\* confidence is a string
FetchLogs ==
    Logs \cup {[event_id |-> "e2", event_type |-> "intel_match",
                metadata |-> [confidence |-> High]]}

InitFetch ==
    /\ impl \in {"src", "stacks"}
    /\ playbooks \in FetchStores
    /\ load_order = playbooks
    /\ last_op = [op |-> "init", result |-> "returned"]
    /\ event = NoEvent
    /\ triggered_actions = Returned(<<>>)
    /\ global_dry_run \in BOOLEAN
    /\ processed_event_ids = {}
    /\ other_processed = 0
    /\ cycle = NoCycle
    /\ log = <<>>
    /\ ProcessUnused
    /\ AnalyzerUnused

NextFetch ==
    \/ \E logs \in SeqsUpTo(FetchLogs, MaxFetchBatch), fresh \in {0, FreshBatch} :
            RunOnce(QueryReturned(logs), fresh)
    \/ RunOnce(QueryFailed, 0)
    \/ RunOnceSrc

SpecFetch == InitFetch /\ [][NextFetch]_vars

\* C18: a cycle whose fetch of events fails processes no event, dispatches
\* no action and leaves the Processed-Event Window as it was.
C18_FailedFetchChangesNothing ==
    [][RunOnce(QueryFailed, 0) =>
            /\ cycle'.events = <<>> /\ log' = <<>>
            /\ processed_event_ids' = processed_event_ids
            /\ other_processed' = other_processed]_vars

(***************************************************************************)
(* Template runs: the playbook block-high-confidence and its kin, and       *)
(* events with and without an ioc_value (C19).                             *)
(***************************************************************************)
\* "{{fields.ioc_value}}"
IocToken ==
    Str(<<123, 123, 102, 105, 101, 108, 100, 115, 46, 105, 111, 99, 95, 118, 97, 108, 117, 101, 125, 125>>)

\* "malicious.example.com"
Malicious ==
    Str(<<109, 97, 108, 105, 99, 105, 111, 117, 115, 46, 101, 120, 97, 109, 112, 108, 101, 46, 99, 111, 109>>)

BlockIoc == [type |-> "BLOCK_DOMAIN", params |-> [domain |-> IocToken]]

TemplateEntries ==
    [id : {"block-high-confidence"}, enabled : BOOLEAN,
     match_event_type : {"intel_match"},
     conditions : {<<>>, <<ConfidenceGE>>},
     actions : {<<BlockIoc, SendNotification>>, <<BlockDomain, SendNotification>>},
     dry_run : {TRUE}, priority : Priorities]

TemplatePayloads ==
    {[confidence |-> Num(95), ioc_value |-> Malicious],
     [confidence |-> Num(50), ioc_value |-> Malicious],
     [k \in {"confidence"} |-> Num(95)]}

TemplateEvents ==
    [event_id : {"e1"}, event_type : EventTypes_src, fields : TemplatePayloads]

InitTemplate ==
    /\ impl \in {"src", "stacks"}
    /\ \E entry \in TemplateEntries :
        /\ load_order = <<entry>>
        /\ playbooks = load_order
    /\ last_op = [op |-> "init", result |-> "returned"]
    /\ event = NoEvent
    /\ triggered_actions = Returned(<<>>)
    /\ ServiceUnused

NextTemplate == \E e \in TemplateEvents : EvaluateEvent(e)

SpecTemplate == InitTemplate /\ [][NextTemplate]_vars

\* C19: evaluate_event resolves the {{path}} tokens of string parameters
\* against the event: block-high-confidence (confidence >= 0.9; BLOCK_DOMAIN
\* of "{{fields.ioc_value}}", SEND_NOTIFICATION; dry_run) against an
\* intel_match event of confidence 0.95 yields two TriggeredActions, neither
\* executed, and a parameter declared as the token comes out as the
\* event's ioc_value whenever the event has one.
C19_TokensResolved ==
    (Evaluated /\ ~triggered_actions.raised) =>
        /\ (/\ playbooks[1].enabled
            /\ event.event_type = "intel_match"
            /\ event.fields.confidence = Num(95))
                => (Len(Result) = 2 /\ \A k \in {1, 2} : ~Result[k].executed)
        /\ \A k \in 1..Len(Result) :
            \A key \in DOMAIN Result[k].action.params :
                (/\ playbooks[1].actions[k].params[key] = IocToken
                 /\ "ioc_value" \in DOMAIN event.fields)
                    => Result[k].action.params[key] = event.fields.ioc_value

(***************************************************************************)
(* The window after a cycle (C20).                                         *)
(***************************************************************************)
\* C20: every event that passed the filter of a cycle is in the
\* Processed-Event Window when the cycle is over (a cycle that trims the
\* window left aside), whatever its actions were and however they ended, so
\* the next cycle does not evaluate it again.
C20_PassedEventsAreProcessed ==
    (impl = "stacks" /\ cycle.op = "run_once" /\ ~cycle.trimmed) =>
        \A n \in 1..Len(PassedFilter) :
            PassedFilter[n].event_id \in processed_event_ids

(***************************************************************************)
(* The trim of the window (C21, C22).                                      *)
(***************************************************************************)
\* C21: a trim evicts the oldest ids.  One fetch gives at most 1000 events
\* and the trim keeps 5000 ids, so every id processed in the cycle that
\* trims is among the 5000 processed last and is retained.
C21_TrimKeepsNewest ==
    (impl = "stacks" /\ cycle.op = "run_once" /\ cycle.trimmed) =>
        \A n \in 1..Len(PassedFilter) :
            PassedFilter[n].event_id \in processed_event_ids

\* C22: at the end of every run_once the Processed-Event Window holds at
\* most 10,000 ids.
C22_WindowBounded ==
    (impl = "stacks" /\ cycle.op = "run_once") =>
        Cardinality(processed_event_ids) + other_processed <= WindowLimit

(***************************************************************************)
(* What run_once returns (C24).                                            *)
(***************************************************************************)
\* C24: the number a cycle returns is the number of its triggered actions
\* whose executed flag is true.
C24_ReturnsExecutedCount ==
    CycleRan =>
        cycle.returned = Cardinality({k \in 1..Len(log) : log[k].ta.executed})

(***************************************************************************)
(* The change monitor: ChangeAnalyzer.compare_baselines.  A Baseline is    *)
(* its device_ips (a list, so an IP can stand in it twice) and its         *)
(* device_baselines (a dict from IP to the data of the device); a risk     *)
(* score is in hundredths.  A ChangeEvent is its change_type, entity,      *)
(* old_value, new_value and risk_level; change_id is a fresh uuid.         *)
(***************************************************************************)
\* a set as a for loop goes over it: in any order, each element once
Orderings(S) ==
    {o \in [1..Cardinality(S) -> S] : \A j, k \in 1..Cardinality(S) : o[j] = o[k] => j = k}

\* compare_baselines, lines 38-39 with every IP of current taken for new
new_devices_AllCurrent(prev, curr) == Range(curr.device_ips)

\* compare_baselines, lines 35-38: current_ips - previous_ips
new_devices(prev, curr) == Range(curr.device_ips) \ Range(prev.device_ips)

\* compare_baselines, line 55: previous_ips - current_ips
disappeared_devices(prev, curr) == Range(prev.device_ips) \ Range(curr.device_ips)

ChangeEvent(type, entity, old, new, risk) ==
    [change_type |-> type, entity |-> entity, old_value |-> old, new_value |-> new,
     risk_level |-> risk]

\* the data of a device no baseline has: {} with the defaults of the gets
NoDeviceData == [observed_ports |-> {}, observed_domains |-> {}, risk_score |-> 0]

\* device_baselines.get(ip, {})
DeviceData(baseline, ip) ==
    IF ip \in DOMAIN baseline.device_baselines
    THEN baseline.device_baselines[ip] ELSE NoDeviceData

\* ChangeAnalyzer._assess_port_risk
_assess_port_risk(ports) ==
    IF ports \cap {22, 23, 3389, 1433, 3306, 5432, 6379, 27017} # {} THEN "high"
    ELSE IF \E port \in ports : port < 1024 THEN "medium"
    ELSE "low"

\* ChangeAnalyzer._compare_device_baselines
_compare_device_baselines(device_ip, prev, curr) ==
    LET new_ports == curr.observed_ports \ prev.observed_ports
        new_domains == curr.observed_domains \ prev.observed_domains
    IN  (IF new_ports # {}
         THEN <<ChangeEvent("new_port_for_device", device_ip, prev.observed_ports,
                            curr.observed_ports, _assess_port_risk(new_ports))>>
         ELSE <<>>)
        \o (IF new_domains # {}
            THEN <<ChangeEvent("new_domain_for_device", device_ip,
                               prev.observed_domains, curr.observed_domains, "low")>>
            ELSE <<>>)
        \o (IF curr.risk_score > prev.risk_score + 20
            THEN <<ChangeEvent("risk_score_increased", device_ip, prev.risk_score,
                               curr.risk_score,
                               IF curr.risk_score > 70 THEN "high" ELSE "medium")>>
            ELSE <<>>)

\* compare_baselines, lines 69-76: the changes of the devices of both
\* baselines, device by device in the order ips
RECURSIVE DeviceChanges(_, _, _, _)
DeviceChanges(ips, k, prev, curr) ==
    IF k > Len(ips) THEN <<>>
    ELSE _compare_device_baselines(ips[k], DeviceData(prev, ips[k]),
                                   DeviceData(curr, ips[k]))
         \o DeviceChanges(ips, k + 1, prev, curr)

\* ChangeAnalyzer.compare_baselines: the lists it can return, one for each
\* order in which the three loops go over their sets
compare_baselines(prev, curr) ==
    {[k \in 1..Len(new) |-> ChangeEvent("new_device", new[k], None, new[k], "medium")]
     \o [k \in 1..Len(gone) |->
            ChangeEvent("device_disappeared", gone[k], gone[k], None, "low")]
     \o DeviceChanges(both, 1, prev, curr) :
        new \in Orderings(new_devices(prev, curr)),
        gone \in Orderings(disappeared_devices(prev, curr)),
        both \in Orderings(Range(prev.device_ips) \cap Range(curr.device_ips))}

(***************************************************************************)
(* Analyzer runs: two baselines over two IPs, and compare_baselines        *)
(* applied to them.                                                        *)
(***************************************************************************)
Ips == {"192.168.1.10", "192.168.1.20"}

DeviceDatas ==
    {NoDeviceData,
     [observed_ports |-> {22, 8080}, observed_domains |-> {"x.io"}, risk_score |-> 50],
     [observed_ports |-> {8080}, observed_domains |-> {}, risk_score |-> 90]}

Baselines ==
    {[device_ips |-> ips, device_baselines |-> data] :
        ips \in SeqsUpTo(Ips, MaxDeviceIps),
        data \in UNION {[D -> DeviceDatas \ {NoDeviceData}] : D \in SUBSET Ips}}

CompareBaselines ==
    /\ ~changes.called
    /\ \E list \in compare_baselines(previous_baseline, current_baseline) :
        changes' = [called |-> TRUE, list |-> list]
    /\ UNCHANGED <<engine_vars, service_vars, process_vars,
                   previous_baseline, current_baseline>>

InitAnalyzer ==
    /\ impl = "src"
    /\ playbooks = <<>>
    /\ load_order = <<>>
    /\ last_op = [op |-> "init", result |-> "returned"]
    /\ event = NoEvent
    /\ triggered_actions = Returned(<<>>)
    /\ global_dry_run = TRUE
    /\ processed_event_ids = {}
    /\ other_processed = 0
    /\ cycle = NoCycle
    /\ log = <<>>
    /\ ProcessUnused
    /\ previous_baseline \in Baselines
    /\ current_baseline \in Baselines
    /\ changes = NoChanges

NextAnalyzer == CompareBaselines

SpecAnalyzer == InitAnalyzer /\ [][NextAnalyzer]_vars

\* the positions of the new_device changes for ip in what was returned
NewDeviceChanges(ip) ==
    {k \in 1..Len(changes.list) :
        changes.list[k].change_type = "new_device" /\ changes.list[k].entity = ip}

\* C25: compare_baselines returns exactly one new_device change, with the IP
\* as entity, for each IP in current.device_ips and not in
\* previous.device_ips, and none for any other IP.
C25_OneNewDevicePerNewIp ==
    changes.called =>
        /\ \A k \in 1..Len(changes.list) :
            changes.list[k].change_type = "new_device" => changes.list[k].entity \in Ips
        /\ \A ip \in Ips :
            Cardinality(NewDeviceChanges(ip)) =
                IF /\ \E k \in 1..Len(current_baseline.device_ips) :
                        current_baseline.device_ips[k] = ip
                   /\ \A k \in 1..Len(previous_baseline.device_ips) :
                        previous_baseline.device_ips[k] # ip
                THEN 1 ELSE 0

\* C25 witness: .20 stands twice in current and not in previous, .10 is in
\* both: one new_device change, for .20
C25_Witness ==
    /\ changes.called
    /\ previous_baseline.device_ips = <<"192.168.1.10">>
    /\ current_baseline.device_ips = <<"192.168.1.20", "192.168.1.20">>
    /\ Cardinality(NewDeviceChanges("192.168.1.20")) = 1
    /\ NewDeviceChanges("192.168.1.10") = {}

(***************************************************************************)
(* The record of a dispatched action (C27).                                *)
(***************************************************************************)
\* C27: after execute, success is not left unknown, and a TriggeredAction
\* with success false has an error, whatever made it fail: an exception, a
\* collaborator that returned failure, or a missing parameter.
C27_FailureHasError ==
    \A k \in 1..Len(log) :
        /\ log[k].ta.success # "unknown"
        /\ log[k].ta.success = "false" => log[k].ta.error

(***************************************************************************)
(* Loading the same file again (C28).                                      *)
(***************************************************************************)
\* C28: a store that holds what one load of a file gave holds the same
\* after the file is loaded once more (load_playbooks_from_file in src,
\* reload_playbooks in stacks).
C28_LoadReplaces ==
    [][\A file \in StoreFiles :
        (/\ file.kind = "ok"
         /\ \/ /\ playbooks = load_playbooks_from_file(<<>>, file)
               /\ LoadPlaybooksFromFile(file)
            \/ /\ playbooks = reload_playbooks(<<>>, file)
               /\ ReloadPlaybooks(file))
        => playbooks' = playbooks]_vars

(***************************************************************************)
(* Audit runs: the cycles of the cycle runs, with an events stream that    *)
(* takes the pushes or refuses them (C26).                                  *)
(***************************************************************************)
InitAudit ==
    /\ impl \in {"src", "stacks"}
    /\ \E entries \in SeqsUpTo(CycleEntries, MaxCyclePlaybooks) :
        /\ load_order = WithIds(entries)
        /\ playbooks = _sort_playbooks(load_order)
    /\ last_op = [op |-> "init", result |-> "returned"]
    /\ event = NoEvent
    /\ triggered_actions = Returned(<<>>)
    /\ global_dry_run \in BOOLEAN
    /\ processed_event_ids = {}
    /\ other_processed = 0
    /\ cycle = NoCycle
    /\ log = <<>>
    /\ sink_up \in BOOLEAN
    /\ running = FALSE
    /\ loop = NoLoop
    /\ AnalyzerUnused

NextAudit == NextCycle

SpecAudit == InitAudit /\ [][NextAudit]_vars

\* the entries of the log for the event at position n of those that passed
\* the filter
EntriesFor(n) == SelectSeq(log, LAMBDA entry : entry.occurrence = n)

\* the triggered actions evaluate_event produces for that event
ProducedFor(n) == evaluate_event(playbooks, PassedFilter[n]).list

\* C26: every TriggeredAction evaluate_event produced in a cycle is
\* dispatched once, in its place, and then handed to the audit sink once
\* with its final executed, success and error; a sink that refuses the
\* push ends neither the cycle nor the dispatch of the later actions.
C26_DispatchedAndAuditedOnce ==
    CycleRan =>
        /\ \A n \in 1..Len(PassedFilter) :
            Reached(n) =>
                /\ Len(EntriesFor(n)) = Len(ProducedFor(n))
                /\ \A k \in 1..Len(ProducedFor(n)) :
                    [EntriesFor(n)[k].ta EXCEPT !.executed = FALSE,
                        !.success = "unknown", !.error = FALSE] = ProducedFor(n)[k]
        /\ \A k \in 1..Len(log) :
            /\ log[k].ta.success # "unknown"
            /\ log[k].emitted.playbook_id = log[k].ta.playbook_id
            /\ log[k].emitted.action_type = log[k].ta.action.type
            /\ log[k].emitted.executed = log[k].ta.executed
            /\ log[k].emitted.success = log[k].ta.success
            /\ log[k].emitted.error = log[k].ta.error
        /\ cycle.raised => \E n \in 1..Len(PassedFilter) : ~Reached(n)

\* C26 witness: the events stream refuses every push of a cycle over two
\* events; the four actions are dispatched and handed to it all the same
C26_Witness ==
    /\ cycle.op = "run_once" /\ ~cycle.raised
    /\ ~sink_up
    /\ Len(PassedFilter) = 2
    /\ Len(log) = 4
    /\ \A k \in 1..4 : ~log[k].delivered /\ log[k].emitted.success = log[k].ta.success
    /\ log[3].occurrence = 2 /\ log[3].ta.executed

(***************************************************************************)
(* Feedback runs: the service and the events stream together (C30).        *)
(* _emit_soar_action_event pushes one soar_action event per dispatched     *)
(* action to the stream {stream="events"} that _fetch_events queries; the  *)
(* lookback (10 min) is longer than the interval (5 min), so a cycle is    *)
(* returned what the cycle before it pushed.  create_event gives each      *)
(* event a fresh uuid: here the numeral of 3 * number + position, where    *)
(* number is that of the original event (1 for the external event) and     *)
(* position that of the action among those of the event.  generation and   *)
(* number are history carried in the metadata; no playbook of these runs   *)
(* has a condition.                                                        *)
(***************************************************************************)
FeedbackEntries ==
    [id : {"w"}, enabled : {TRUE},
     match_event_type : {"intel_match", "soar_action", Wildcard},
     conditions : {<<>>},
     actions : {<<LogEvent>>, <<TagDevice, LogEvent>>},
     dry_run : BOOLEAN, priority : {50}]

\* the external event of the stream
ExternalLogs ==
    {[event_id |-> "e1", event_type |-> "intel_match", metadata |-> [k \in {} |-> None]]}

\* the event of the last cycle that log entry k was dispatched for
OriginalOf(k) == PassedFilter[log[k].occurrence]

GenerationOf(e) ==
    IF "generation" \in DOMAIN e.fields THEN e.fields.generation.n ELSE 0

NumberOf(e) == IF "number" \in DOMAIN e.fields THEN e.fields.number.n ELSE 1

\* the position of log entry k among the entries for its event
PositionOf(k) == Cardinality({j \in 1..k : log[j].occurrence = log[k].occurrence})

\* emit_new_event (core/events.py): the entry of the stream for log entry k
AuditLog(k) ==
    [event_id |-> ToString(3 * NumberOf(OriginalOf(k)) + PositionOf(k)),
     event_type |-> "soar_action",
     metadata |-> [generation |-> Num(GenerationOf(OriginalOf(k)) + 1),
                   number |-> Num(3 * NumberOf(OriginalOf(k)) + PositionOf(k))]]

\* the soar_action events the last cycle pushed and the stream took
AuditLogs ==
    LET delivered == SelectSeq([k \in 1..Len(log) |-> k], LAMBDA k : log[k].delivered)
    IN  [j \in 1..Len(delivered) |-> AuditLog(delivered[j])]

\* one cycle of run_loop: run_once, fetching the external events given and
\* the soar_action events of the cycle before
FeedbackCycle(external) ==
    /\ \A k \in 1..Len(log) : GenerationOf(OriginalOf(k)) < MaxGeneration
    /\ RunOnce(QueryReturned(external \o AuditLogs), 0)

InitFeedback ==
    /\ impl = "stacks"
    /\ \E entry \in FeedbackEntries :
        /\ load_order = <<entry>>
        /\ playbooks = _sort_playbooks(load_order)
    /\ last_op = [op |-> "init", result |-> "returned"]
    /\ event = NoEvent
    /\ triggered_actions = Returned(<<>>)
    /\ global_dry_run \in BOOLEAN
    /\ processed_event_ids = {}
    /\ other_processed = 0
    /\ cycle = NoCycle
    /\ log = <<>>
    /\ sink_up \in BOOLEAN
    /\ running = FALSE
    /\ loop = NoLoop
    /\ AnalyzerUnused

NextFeedback == \E external \in SeqsUpTo(ExternalLogs, 1) : FeedbackCycle(external)

SpecFeedback == InitFeedback /\ [][NextFeedback]_vars

\* C30: the soar_action events the scheduler emits for its own dispatched
\* actions never produce triggered actions themselves: no action of a cycle
\* is dispatched for a soar_action event.
C30_AuditEventsTriggerNothing ==
    cycle.op = "run_once" =>
        \A k \in 1..Len(log) : OriginalOf(k).event_type # "soar_action"

(***************************************************************************)
(* Process runs: the service process from its start to its end, step by    *)
(* step (C23, C29).  src: main() loads the playbooks file, then run()      *)
(* loops while self.running; stop() clears the flag.  stacks: the          *)
(* constructor of SOARService builds the engine, which reloads, then       *)
(* run_loop loops for ever.  loop.pc is the place of the process; file     *)
(* and allow_empty are what it finds (the playbooks file and               *)
(* SOAR_ALLOW_EMPTY_PLAYBOOKS); requested says a shutdown was asked for    *)
(* and late that an event or a cycle was begun after that (history).       *)
(***************************************************************************)
NoAction == [playbook_id |-> "none"]

ProcessPlaybook ==
    [id |-> "p", enabled |-> TRUE, match_event_type |-> "intel_match",
     conditions |-> <<>>, actions |-> <<TagDevice, LogEvent>>, dry_run |-> FALSE,
     priority |-> 50]

ProcessFiles ==
    {File(k, <<>>) : k \in FileKinds \ {"ok"}}
    \cup {File("ok", es) : es \in SeqsUpTo({ProcessPlaybook, Invalid}, MaxFileEntries)}

ProcessLogs ==
    {[event_id |-> "e1", event_type |-> "intel_match", metadata |-> [k \in {} |-> None]],
     [event_id |-> "e2", event_type |-> "intel_match", metadata |-> [k \in {} |-> None]]}

InLoop == loop.pc \in {"test", "cycle", "events", "actions", "executing", "sleep"}

ProcessFrame ==
    UNCHANGED <<impl, event, triggered_actions, global_dry_run, sink_up, analyzer_vars>>

\* main (src), lines 200-215: load the file if it is there; exit when it is
\* not there or the load raises, unless SOAR_ALLOW_EMPTY_PLAYBOOKS is set
Main ==
    /\ impl = "src"
    /\ loop.pc = "main"
    /\ playbooks' = load_playbooks_from_file(playbooks, loop.file)
    /\ load_order' = playbooks'
    /\ last_op' = [op |-> "load",
                   result |-> IF loop.file.kind = "unparsable" THEN "raised"
                              ELSE "returned"]
    /\ loop' = [loop EXCEPT !.pc =
                    IF loop.file.kind \in {"missing", "unparsable"} /\ ~loop.allow_empty
                    THEN "exited" ELSE "run"]
    /\ UNCHANGED <<running, processed_event_ids, other_processed, cycle, log>>
    /\ ProcessFrame

\* SoarService.run (src), lines 154-159: self.running = True
Run ==
    /\ impl = "src"
    /\ loop.pc = "run"
    /\ running' = TRUE
    /\ loop' = [loop EXCEPT !.pc = "test"]
    /\ UNCHANGED <<playbooks, load_order, last_op, processed_event_ids,
                   other_processed, cycle, log>>
    /\ ProcessFrame

\* SOARService.__init__ (stacks) with the PlaybookEngine it builds, and the
\* call of run_loop: no look at the number of playbooks
Construct ==
    /\ impl = "stacks"
    /\ loop.pc = "main"
    /\ playbooks' = reload_playbooks(playbooks, loop.file)
    /\ load_order' = playbooks'
    /\ last_op' = [op |-> "reload", result |-> "returned"]
    /\ loop' = [loop EXCEPT !.pc = "test"]
    /\ UNCHANGED <<running, processed_event_ids, other_processed, cycle, log>>
    /\ ProcessFrame

\* while self.running (src run, line 162) / while True (stacks run_loop, 123)
LoopTest ==
    /\ loop.pc = "test"
    /\ loop' = [loop EXCEPT
                    !.pc = IF impl = "stacks" \/ running THEN "cycle" ELSE "returned",
                    !.late = @ \/ (loop.requested /\ (impl = "stacks" \/ running))]
    /\ UNCHANGED <<playbooks, load_order, last_op, running, processed_event_ids,
                   other_processed, cycle, log>>
    /\ ProcessFrame

\* SoarService.run_once (src) within run: no events are fetched
CycleSrc ==
    /\ impl = "src"
    /\ loop.pc = "cycle"
    /\ log' = <<>>
    /\ cycle' = [op |-> "run_once", start_ids |-> {}, events |-> <<>>,
                 raised |-> FALSE, returned |-> 0, trimmed |-> FALSE]
    /\ loop' = [loop EXCEPT !.pc = "sleep"]
    /\ UNCHANGED <<playbooks, load_order, last_op, running, processed_event_ids,
                   other_processed>>
    /\ ProcessFrame

\* run_once (stacks), lines 67-78: the fetch and the filter
CycleFetch(fetched) ==
    /\ impl = "stacks"
    /\ loop.pc = "cycle"
    /\ \E events \in {_fetch_events(fetched)} :
        /\ cycle' = [op |-> "run_once", start_ids |-> processed_event_ids,
                     events |-> events, raised |-> FALSE, returned |-> 0,
                     trimmed |-> FALSE]
        /\ loop' = [loop EXCEPT !.pc = "events", !.events = NewEvents(events)]
    /\ log' = <<>>
    /\ UNCHANGED <<playbooks, load_order, last_op, running, processed_event_ids,
                   other_processed>>
    /\ ProcessFrame

\* run_once (stacks), lines 82-83: the next event, and evaluate_event; an
\* exception leaves run_once and is caught in run_loop (lines 124-127)
TakeEvent ==
    /\ loop.pc = "events"
    /\ loop.events # <<>>
    /\ \E tas \in {evaluate_event_stacks(playbooks, Head(loop.events))} :
        IF tas.raised
        THEN /\ loop' = [loop EXCEPT !.pc = "sleep", !.events = <<>>,
                                     !.late = @ \/ loop.requested]
             /\ cycle' = [cycle EXCEPT !.raised = TRUE]
        ELSE /\ loop' = [loop EXCEPT !.pc = "actions", !.current = Head(loop.events),
                                     !.events = Tail(loop.events), !.actions = tas.list,
                                     !.late = @ \/ loop.requested]
             /\ UNCHANGED cycle
    /\ UNCHANGED <<playbooks, load_order, last_op, running, processed_event_ids,
                   other_processed, log>>
    /\ ProcessFrame

\* run_once (stacks), lines 91-95: get_playbook and the call of execute; the
\* action is being dispatched
ExecuteBegin ==
    /\ loop.pc = "actions"
    /\ loop.actions # <<>>
    /\ loop' = [loop EXCEPT !.pc = "executing", !.in_flight = Head(loop.actions),
                            !.actions = Tail(loop.actions)]
    /\ UNCHANGED <<playbooks, load_order, last_op, running, processed_event_ids,
                   other_processed, cycle, log>>
    /\ ProcessFrame

\* run_once (stacks), lines 95-102: execute returns, the count, the emission
ExecuteEnd ==
    /\ loop.pc = "executing"
    /\ \E oc \in OutcomesOfCalls :
       \E dispatched \in {DispatchAll_stacks(<<loop.in_flight>>, 1, oc)} :
        /\ log' = log \o LogOf(dispatched,
                               Len(NewEvents(cycle.events)) - Len(loop.events), oc)
        /\ cycle' = [cycle EXCEPT !.returned = @ + CountSuccess(dispatched)]
    /\ loop' = [loop EXCEPT !.pc = "actions", !.in_flight = NoAction]
    /\ UNCHANGED <<playbooks, load_order, last_op, running, processed_event_ids,
                   other_processed>>
    /\ ProcessFrame

\* run_once (stacks), line 105: the event is marked as processed
EventDone ==
    /\ loop.pc = "actions"
    /\ loop.actions = <<>>
    /\ processed_event_ids' = processed_event_ids \cup {loop.current.event_id}
    /\ loop' = [loop EXCEPT !.pc = "events", !.current = NoEvent]
    /\ UNCHANGED <<playbooks, load_order, last_op, running, other_processed, cycle, log>>
    /\ ProcessFrame

\* run_once (stacks), lines 108-113: the cleanup and the return
CycleEnd ==
    /\ loop.pc = "events"
    /\ loop.events = <<>>
    /\ IF Cardinality(processed_event_ids) + other_processed > WindowLimit
       THEN \E kept \in SUBSET processed_event_ids :
            /\ WindowKeep - Cardinality(kept) <= other_processed
            /\ processed_event_ids' = kept
            /\ other_processed' = WindowKeep - Cardinality(kept)
            /\ cycle' = [cycle EXCEPT !.trimmed = TRUE]
       ELSE UNCHANGED <<processed_event_ids, other_processed, cycle>>
    /\ loop' = [loop EXCEPT !.pc = "sleep"]
    /\ UNCHANGED <<playbooks, load_order, last_op, running, log>>
    /\ ProcessFrame

\* asyncio.sleep(poll_interval) (src run, line 173) / time.sleep (stacks
\* run_loop, line 131) is over
Sleep ==
    /\ loop.pc = "sleep"
    /\ loop' = [loop EXCEPT !.pc = "test"]
    /\ UNCHANGED <<playbooks, load_order, last_op, running, processed_event_ids,
                   other_processed, cycle, log>>
    /\ ProcessFrame

\* SoarService.stop (src), called by another task while run is suspended in
\* its sleep, the one place where it yields
Stop ==
    /\ impl = "src"
    /\ loop.pc = "sleep"
    /\ running' = FALSE
    /\ loop' = [loop EXCEPT !.requested = TRUE]
    /\ UNCHANGED <<playbooks, load_order, last_op, processed_event_ids,
                   other_processed, cycle, log>>
    /\ ProcessFrame

\* SIGINT: KeyboardInterrupt is raised in the loop wherever it is; it is no
\* Exception, so no except clause of the loop or of execute takes it.  src
\* main catches it outside asyncio.run and calls stop (lines 231-233);
\* stacks has no stop and no handler.
Interrupt ==
    /\ InLoop
    /\ running' = FALSE
    /\ loop' = [loop EXCEPT !.pc = "terminated", !.requested = TRUE]
    /\ UNCHANGED <<playbooks, load_order, last_op, processed_event_ids,
                   other_processed, cycle, log>>
    /\ ProcessFrame

InitProcess ==
    /\ impl \in {"src", "stacks"}
    /\ playbooks = <<>>
    /\ load_order = <<>>
    /\ last_op = [op |-> "init", result |-> "returned"]
    /\ event = NoEvent
    /\ triggered_actions = Returned(<<>>)
    /\ global_dry_run \in BOOLEAN
    /\ processed_event_ids = {}
    /\ other_processed = 0
    /\ cycle = NoCycle
    /\ log = <<>>
    /\ sink_up = TRUE
    /\ running = FALSE
    /\ \E file \in ProcessFiles, allow_empty \in BOOLEAN :
        loop = [pc |-> "main", file |-> file, allow_empty |-> allow_empty,
                requested |-> FALSE, late |-> FALSE, events |-> <<>>,
                current |-> NoEvent, actions |-> <<>>, in_flight |-> NoAction]
    /\ AnalyzerUnused

NextProcess ==
    \/ Main
    \/ Run
    \/ Construct
    \/ LoopTest
    \/ CycleSrc
    \/ \E logs \in SeqsUpTo(ProcessLogs, MaxLoopBatch) : CycleFetch(QueryReturned(logs))
    \/ CycleFetch(QueryFailed)
    \/ TakeEvent
    \/ ExecuteBegin
    \/ ExecuteEnd
    \/ EventDone
    \/ CycleEnd
    \/ Sleep
    \/ Stop
    \/ Interrupt

SpecProcess == InitProcess /\ [][NextProcess]_vars

\* C23: with the allow-empty-playbooks flag not set, the service is never in
\* its poll loop with no playbook loaded, whatever the playbooks file is.
C23_NeverLoopsWithoutPlaybooks ==
    (InLoop /\ ~loop.allow_empty) => playbooks # <<>>

\* C29: after a shutdown request no event and no cycle is begun, and the
\* process ends between events: with no action in dispatch and no event
\* taken up and not yet marked processed.
C29_ShutdownBetweenEvents ==
    loop.pc \in {"test", "cycle", "events", "actions", "executing", "sleep",
                 "returned", "terminated"} =>
        /\ ~loop.late
        /\ loop.pc = "terminated" =>
            (loop.in_flight = NoAction /\ loop.current = NoEvent)

====
